---- MODULE Spec2Model ----
(***************************************************************************)
(* A model of pulp's UnitAddConduit (unit_add.py): the importer-facing     *)
(* conduit that saves content units, associates them with a repository,    *)
(* links them and queries them, run by one or several plugin threads       *)
(* against a shared backing store.                                         *)
(***************************************************************************)
EXTENDS Integers, Sequences, FiniteSets, Bags, TLC

\* ------------------------------------------------------------------ bounds
NumThreads == 2
\* The Unit objects a plugin creates with init_unit, in a run with several
\* threads and in a single-threaded run.
MaxUnits == 2
MaxUnitsSeq == 3
\* save_unit calls begun in a run with several threads, and save_unit and
\* link_unit calls begun in a single-threaded run.
MaxCalls == 2
MaxCallsSeq == 3
MaxLinkCalls == 2
\* The Unit objects held and the get_units calls begun in a run that queries.
MaxUnitsQuery == 4
MaxQueries == 2
\* The Unit objects held and the calls of any kind begun in a run that uses
\* every operation of the conduit.
MaxUnitsFacade == 2
MaxCallsFacade == 2
\* The authenticators loaded by the request front-end and the requests it decides.
MaxCheckers == 2
MaxRequests == 2
\* The workers the lifecycle tool may be asked for and the runs of the tool.
MaxWorkers == 2
MaxRuns == 2

\* --------------------------------------------------------------- constants
Threads == 1..NumThreads
Slots == 1..MaxUnits
SlotsSeq == 1..MaxUnitsSeq
SlotsQuery == 1..MaxUnitsQuery
SlotsFacade == 1..MaxUnitsFacade
AllSlots == Slots \cup SlotsSeq \cup SlotsQuery \cup SlotsFacade
TypeIds == {"rpm", "srpm"}
\* A Unit whose id field is not populated (Python None).
None == 0
NoPath == "None"
repo_id == "repo-1"
importer_id == "yum_importer"
OWNER_TYPE_IMPORTER == "importer"
NoExc == "none"
MissingResource == "MissingResource"
StoreFailure == "StoreFailure"
UnknownType == "UnknownType"

\* types_db.type_definition(def_id): the definition names the type's unit_key
\* fields.
type_definition(def_id) ==
  [id |-> def_id,
   unit_key |-> IF def_id = "srpm" THEN {"name", "arch"} ELSE {"name"}]

\* The arguments of the plugin's init_unit calls, one per Unit object it makes.
\* Objects 1 and 2 describe the same unit (type and unit_key) with different
\* metadata; the metadata of objects 3 and 4 carries fields that are also
\* unit_key fields.
ArgType(i) == IF i % 4 = 3 THEN "srpm" ELSE "rpm"
ArgKey(i) ==
  CASE i % 4 \in {1, 2} -> [name |-> "bash"]
    [] i % 4 = 3       -> [name |-> "zsh", arch |-> "src"]
    [] OTHER           -> [name |-> "zsh"]
ArgMetadata(i) ==
  CASE i % 4 = 1 -> [arch |-> "x86_64"]
    [] i % 4 = 2 -> [arch |-> "x86_64", summary |-> "shell"]
    [] i % 4 = 3 -> [arch |-> "noarch", name |-> "evil", summary |-> "sources"]
    [] OTHER     -> [arch |-> "noarch", name |-> "bash", summary |-> "z shell"]
ArgPath(i) == IF i % 2 = 1 THEN "pkg-" \o ArgType(i) ELSE NoPath

\* ------------------------------------------------------------ dictionaries
\* dict(a); a.update(b): b's values win on shared field names.
DictUpdate(a, b) ==
  [f \in (DOMAIN a) \cup (DOMAIN b) |-> IF f \in DOMAIN b THEN b[f] ELSE a[f]]

\* The unit_key and metadata merged into the stored representation; the
\* unit_key value takes precedence.
to_pulp_unit(unit) == DictUpdate(unit.metadata, unit.unit_key)

\* pulp_unit = common_utils.to_pulp_unit(unit): what save_unit hands to the
\* content manager.
SavePayload_MetadataOnly(unit) == unit.metadata
SavePayload(unit) == to_pulp_unit(unit)

\* Unit(type_id, unit_key, metadata, path): id is not populated.
Unit(type_id, unit_key, metadata, path) ==
  [type_id |-> type_id, unit_key |-> unit_key, metadata |-> metadata,
   storage_path |-> path, id |-> None]

NoUnit == [type_id |-> "", unit_key |-> [name |-> ""], metadata |-> [arch |-> ""],
           storage_path |-> NoPath, id |-> None]

\* request_content_unit_file_path: a location in a type-scoped namespace.
request_content_unit_file_path(type_id, relative_path) ==
  "/content/" \o type_id \o "/" \o relative_path

\* Raising ImporterConduitException(e): one kind, carrying the cause.
ImporterConduitException_Bare(e) == [kind |-> e, cause |-> e]
ImporterConduitException(e) == [kind |-> "ImporterConduitException", cause |-> e]
NoRaise == [kind |-> NoExc, cause |-> NoExc]

\* ------------------------------------------------------------------- state
VARIABLES
  store,          \* content units: store[i] is the record whose _id is i
  assoc,          \* repository associations, in insertion order
  links,          \* unit references: a bag of link records
  added_count,    \* self._added_count
  updated_count,  \* self._updated_count
  punits,         \* the Unit objects the plugin holds
  pc,             \* each thread's position inside a conduit call
  frame,          \* each thread's locals
  hist,           \* the last two calls completed, in completion order
  ncalls,         \* init_unit and save_unit calls begun
  nlinks,         \* link_unit calls begun
  nqueries,       \* get_units calls begun
  nreturned,      \* save_unit calls that returned
  nraised         \* save_unit calls that raised

\* The request front-end (pulp.repoauth.wsgi) deciding on one request at a time.
VARIABLES
  auth_disabled,  \* auth_enabled_validation.authenticate: True when auth is off
  verdict,        \* what each loaded authenticator answers for each environ
  auth_pc,        \* position inside allow_access
  auth,           \* the locals and the calls of the allow_access in progress
  auth_done,      \* the last allow_access that returned
  nrequests       \* allow_access calls begun

\* The worker lifecycle tool (pulp-manage-workers), one run at a time.
VARIABLES
  unit_files,     \* the contents of pulp_worker-<i>.service, or Absent
  mw_pc,          \* position inside _start_workers or _stop_workers
  mw,             \* the locals and the commands of the run in progress
  mw_done,        \* the last run that ended, if any
  nruns           \* runs of the tool begun

conduit_vars == <<store, assoc, links, added_count, updated_count, punits, pc, frame,
                  hist, ncalls, nlinks, nqueries, nreturned, nraised>>
auth_vars == <<auth_disabled, verdict, auth_pc, auth, auth_done, nrequests>>
worker_vars == <<unit_files, mw_pc, mw, mw_done, nruns>>

vars == <<conduit_vars, auth_vars, worker_vars>>

\* ------------------------------------------------------- request front-end
\* The authenticators, in the order iter_entry_points yields them.
Authenticators == 1..MaxCheckers
Environs == {"environ-a", "environ-b"}

NoAuth == [environ |-> "", next |-> 1, calls |-> <<>>, result |-> "none"]

\* The front-end before any request, every authenticator allowing.
AuthQuiet ==
  /\ auth_disabled = FALSE
  /\ verdict = [c \in Authenticators, e \in Environs |-> TRUE]
  /\ auth_pc = "idle"
  /\ auth = NoAuth
  /\ auth_done = NoAuth
  /\ nrequests = 0

\* The front-end before any request, for any flag and any authenticators.
InitAuth ==
  /\ auth_disabled \in BOOLEAN
  /\ verdict \in [Authenticators \X Environs -> BOOLEAN]
  /\ auth_pc = "idle"
  /\ auth = NoAuth
  /\ auth_done = NoAuth
  /\ nrequests = 0

\* if auth_enabled_validation.authenticate(environ): return True
allow_access_disabled(environ) ==
  /\ auth_pc = "idle" /\ nrequests < MaxRequests
  /\ auth_disabled
  /\ auth_done' = [NoAuth EXCEPT !.environ = environ, !.result = "allow"]
  /\ nrequests' = nrequests + 1
  /\ UNCHANGED <<auth_disabled, verdict, auth_pc, auth>>
  /\ UNCHANGED <<conduit_vars, worker_vars>>

\* Auth is enabled: the loop over the entry points begins.
allow_access_enabled(environ) ==
  /\ auth_pc = "idle" /\ nrequests < MaxRequests
  /\ ~auth_disabled
  /\ auth' = [NoAuth EXCEPT !.environ = environ]
  /\ auth_pc' = "loop"
  /\ nrequests' = nrequests + 1
  /\ UNCHANGED <<auth_disabled, verdict, auth_done>>
  /\ UNCHANGED <<conduit_vars, worker_vars>>

Called(a) == Append(a.calls, [checker |-> a.next, environ |-> a.environ])

\* The next authenticator is loaded and called, and allows.
authenticator_allows ==
  /\ auth_pc = "loop" /\ auth.next \in Authenticators
  /\ verdict[auth.next, auth.environ]
  /\ auth' = [auth EXCEPT !.calls = Called(auth), !.next = @ + 1]
  /\ UNCHANGED <<auth_disabled, verdict, auth_pc, auth_done, nrequests>>
  /\ UNCHANGED <<conduit_vars, worker_vars>>

\* The next authenticator is loaded and called, and denies: return False.
authenticator_denies_Ignored ==
  /\ auth_pc = "loop" /\ auth.next \in Authenticators
  /\ ~verdict[auth.next, auth.environ]
  /\ auth' = [auth EXCEPT !.calls = Called(auth), !.next = @ + 1]
  /\ UNCHANGED <<auth_disabled, verdict, auth_pc, auth_done, nrequests>>
  /\ UNCHANGED <<conduit_vars, worker_vars>>

authenticator_denies ==
  /\ auth_pc = "loop" /\ auth.next \in Authenticators
  /\ ~verdict[auth.next, auth.environ]
  /\ auth_done' = [auth EXCEPT !.calls = Called(auth), !.result = "deny"]
  /\ auth' = NoAuth
  /\ auth_pc' = "idle"
  /\ UNCHANGED <<auth_disabled, verdict, nrequests>>
  /\ UNCHANGED <<conduit_vars, worker_vars>>

\* Every authenticator allowed: return True.
allow_access_return ==
  /\ auth_pc = "loop" /\ auth.next \notin Authenticators
  /\ auth_done' = [auth EXCEPT !.result = "allow"]
  /\ auth' = NoAuth
  /\ auth_pc' = "idle"
  /\ UNCHANGED <<auth_disabled, verdict, nrequests>>
  /\ UNCHANGED <<conduit_vars, worker_vars>>

\* -------------------------------------------------------- worker lifecycle
Workers == 0..(MaxWorkers - 1)
EX_OK == 0
\* The return codes of a systemctl command.
ReturnCodes == {EX_OK, 1, 3}
_ENVIRONMENT_FILE == "/etc/default/pulp_workers"

\* _WORKER_TEMPLATE % {'num': i, 'environment_file': _ENVIRONMENT_FILE}
_WORKER_TEMPLATE(num, environment_file) ==
  [num |-> num, environment_file |-> environment_file]
unit_contents(i) == _WORKER_TEMPLATE(i, _ENVIRONMENT_FILE)

\* No file at the unit path, and a file with other contents.
Absent == [num |-> -1, environment_file |-> ""]
Stale(i) == [num |-> i, environment_file |-> "/etc/sysconfig/pulp_workers"]

\* The output of `. _ENVIRONMENT_FILE; echo $PULP_CONCURRENCY` when the
\* variable is not set; otherwise the output is the number.
NoOutput == -1
_get_concurrency(output, cpu_count) ==
  IF output # NoOutput THEN output ELSE cpu_count

\* glob(glob_path): the unit files there are, in some order.
Existing(files) == {w \in Workers : files[w] # Absent}
Orders(S) ==
  {f \in [1..Cardinality(S) -> S] : \A a, b \in DOMAIN f : f[a] = f[b] => a = b}

NoFiles == [w \in Workers |-> Absent]

NoRun ==
  [op |-> "none", concurrency |-> 0, i |-> 0, found |-> <<>>, pipes |-> <<>>,
   log |-> <<>>, rcs |-> <<>>, exit_code |-> EX_OK, pre |-> NoFiles, post |-> NoFiles]

Event(kind, worker) == [kind |-> kind, worker |-> worker]

\* The tool's process ends, with sys.exit(exit_code) or by returning.
Exits(run) ==
  /\ mw_done' = <<[run EXCEPT !.post = unit_files]>>
  /\ mw' = NoRun
  /\ mw_pc' = "idle"

WorkersQuiet ==
  /\ unit_files = NoFiles
  /\ mw_pc = "idle"
  /\ mw = NoRun
  /\ mw_done = <<>>
  /\ nruns = 0

\* Any unit files may be there when the tool is first run.
InitWorkers ==
  /\ unit_files \in {f \in [Workers -> {Absent} \cup {Stale(w) : w \in Workers}
                                       \cup {unit_contents(w) : w \in Workers}] :
                       \A w \in Workers : f[w] \in {Absent, Stale(w), unit_contents(w)}}
  /\ mw_pc = "idle"
  /\ mw = NoRun
  /\ mw_done = <<>>
  /\ nruns = 0

\* main() with 'start': concurrency = _get_concurrency()
start_begin(output, cpu_count) ==
  /\ mw_pc = "idle" /\ nruns < MaxRuns
  /\ mw' = [NoRun EXCEPT !.op = "start", !.pre = unit_files,
                         !.concurrency = _get_concurrency(output, cpu_count)]
  /\ mw_pc' = "unit_file"
  /\ nruns' = nruns + 1
  /\ UNCHANGED <<unit_files, mw_done>>
  /\ UNCHANGED <<conduit_vars, auth_vars>>

NeedsWrite(files, i) == files[i] = Absent \/ files[i] # unit_contents(i)

\* The unit file is absent or differs: it is written.
start_write ==
  /\ mw_pc = "unit_file" /\ mw.i < mw.concurrency
  /\ NeedsWrite(unit_files, mw.i)
  /\ unit_files' = [unit_files EXCEPT ![mw.i] = unit_contents(mw.i)]
  /\ mw' = [mw EXCEPT !.log = Append(@, Event("write", mw.i))]
  /\ mw_pc' = "systemctl"
  /\ UNCHANGED <<mw_done, nruns>>
  /\ UNCHANGED <<conduit_vars, auth_vars>>

\* The unit file is there with the template's contents: it is left alone.
start_keep_Rewrite ==
  /\ mw_pc = "unit_file" /\ mw.i < mw.concurrency
  /\ ~NeedsWrite(unit_files, mw.i)
  /\ unit_files' = [unit_files EXCEPT ![mw.i] = unit_contents(mw.i)]
  /\ mw' = [mw EXCEPT !.log = Append(@, Event("write", mw.i))]
  /\ mw_pc' = "systemctl"
  /\ UNCHANGED <<mw_done, nruns>>
  /\ UNCHANGED <<conduit_vars, auth_vars>>

start_keep ==
  /\ mw_pc = "unit_file" /\ mw.i < mw.concurrency
  /\ ~NeedsWrite(unit_files, mw.i)
  /\ mw_pc' = "systemctl"
  /\ UNCHANGED <<unit_files, mw, mw_done, nruns>>
  /\ UNCHANGED <<conduit_vars, auth_vars>>

\* systemctl start returns 0: on to the next worker.
start_systemctl ==
  /\ mw_pc = "systemctl"
  /\ mw' = [mw EXCEPT !.log = Append(@, Event("start", mw.i)),
                      !.rcs = Append(@, EX_OK), !.i = @ + 1]
  /\ mw_pc' = "unit_file"
  /\ UNCHANGED <<unit_files, mw_done, nruns>>
  /\ UNCHANGED <<conduit_vars, auth_vars>>

\* systemctl start returns non-zero: sys.exit(pipe.returncode)
start_systemctl_fail_Continues(rc) ==
  /\ mw_pc = "systemctl" /\ rc # EX_OK
  /\ mw' = [mw EXCEPT !.log = Append(@, Event("start", mw.i)),
                      !.rcs = Append(@, rc), !.exit_code = rc, !.i = @ + 1]
  /\ mw_pc' = "unit_file"
  /\ UNCHANGED <<unit_files, mw_done, nruns>>
  /\ UNCHANGED <<conduit_vars, auth_vars>>

start_systemctl_fail(rc) ==
  /\ mw_pc = "systemctl" /\ rc # EX_OK
  /\ Exits([mw EXCEPT !.log = Append(@, Event("start", mw.i)),
                      !.rcs = Append(@, rc), !.exit_code = rc])
  /\ UNCHANGED <<unit_files, nruns>>
  /\ UNCHANGED <<conduit_vars, auth_vars>>

\* range(concurrency) is exhausted: _start_workers returns.
start_return ==
  /\ mw_pc = "unit_file" /\ mw.i >= mw.concurrency
  /\ Exits(mw)
  /\ UNCHANGED <<unit_files, nruns>>
  /\ UNCHANGED <<conduit_vars, auth_vars>>

\* main() with 'stop': glob(glob_path)
stop_begin(found) ==
  /\ mw_pc = "idle" /\ nruns < MaxRuns
  /\ mw' = [NoRun EXCEPT !.op = "stop", !.pre = unit_files, !.found = found]
  /\ mw_pc' = "popen"
  /\ nruns' = nruns + 1
  /\ UNCHANGED <<unit_files, mw_done>>
  /\ UNCHANGED <<conduit_vars, auth_vars>>

\* pipes.append(subprocess.Popen('systemctl stop ...'))
stop_popen ==
  /\ mw_pc = "popen" /\ Len(mw.pipes) < Len(mw.found)
  /\ LET worker == mw.found[Len(mw.pipes) + 1]
     IN mw' = [mw EXCEPT !.pipes = Append(@, worker),
                         !.log = Append(@, Event("stop", worker))]
  /\ UNCHANGED <<unit_files, mw_pc, mw_done, nruns>>
  /\ UNCHANGED <<conduit_vars, auth_vars>>

\* for pipe in pipes: pipe.communicate(); a non-zero returncode is kept.
stop_communicate_First(rc) ==
  /\ mw_pc \in {"popen", "communicate"}
  /\ Len(mw.pipes) = Len(mw.found) /\ Len(mw.rcs) < Len(mw.pipes)
  /\ mw' = [mw EXCEPT !.rcs = Append(@, rc),
                      !.log = Append(@, Event("wait", mw.pipes[Len(mw.rcs) + 1])),
                      !.exit_code = IF rc # EX_OK /\ @ = EX_OK THEN rc ELSE @]
  /\ mw_pc' = "communicate"
  /\ UNCHANGED <<unit_files, mw_done, nruns>>
  /\ UNCHANGED <<conduit_vars, auth_vars>>

stop_communicate(rc) ==
  /\ mw_pc \in {"popen", "communicate"}
  /\ Len(mw.pipes) = Len(mw.found) /\ Len(mw.rcs) < Len(mw.pipes)
  /\ mw' = [mw EXCEPT !.rcs = Append(@, rc),
                      !.log = Append(@, Event("wait", mw.pipes[Len(mw.rcs) + 1])),
                      !.exit_code = IF rc # EX_OK THEN rc ELSE @]
  /\ mw_pc' = "communicate"
  /\ UNCHANGED <<unit_files, mw_done, nruns>>
  /\ UNCHANGED <<conduit_vars, auth_vars>>

\* if exit_code != os.EX_OK: sys.exit(exit_code); otherwise return.
stop_exit ==
  /\ mw_pc \in {"popen", "communicate"}
  /\ Len(mw.pipes) = Len(mw.found) /\ Len(mw.rcs) = Len(mw.pipes)
  /\ Exits(mw)
  /\ UNCHANGED <<unit_files, nruns>>
  /\ UNCHANGED <<conduit_vars, auth_vars>>

\* ------------------------------------------------------------ backing store
\* get_content_unit_by_keys_dict: the ids of the records of the type whose key
\* fields equal the given unit_key.
MatchingIds(st, type_id, unit_key) ==
  { i \in DOMAIN st :
      /\ st[i].type_id = type_id
      /\ \A f \in DOMAIN unit_key :
           f \in DOMAIN st[i].fields /\ st[i].fields[f] = unit_key[f] }

\* find_one returns the first match.
FirstMatch(st, type_id, unit_key) ==
  CHOOSE i \in MatchingIds(st, type_id, unit_key) :
    \A j \in MatchingIds(st, type_id, unit_key) : i <= j

\* add_content_unit(type_id, None, fields): a new record with a fresh id.
add_content_unit(st, type_id, fields) ==
  Append(st, [type_id |-> type_id, fields |-> fields])

\* update_content_unit(type_id, unit_id, delta): sets the delta's fields.
update_content_unit(st, type_id, unit_id, delta) ==
  [st EXCEPT ![unit_id].fields = DictUpdate(@, delta)]

InSeq(s, x) == \E i \in DOMAIN s : s[i] = x
Copies(s, x) == Cardinality({i \in DOMAIN s : s[i] = x})

\* Idempotent insert: a record already present is not inserted again.
InsertOnce(s, x) == IF InSeq(s, x) THEN s ELSE Append(s, x)

\* associate_unit_by_id(repo_id, type_id, unit_id, owner_type, owner_id)
associate_unit_by_id(as, rec) == InsertOnce(as, rec)

\* link_referenced_content_units(from_type, from_id, to_type, [to_id]): a
\* reference already recorded is not recorded again.
link_referenced_content_units(ls, rec) ==
  IF BagIn(rec, ls) THEN ls ELSE ls (+) SetToBag({rec})

\* get_units_across_types(repo_id, criteria): the units associated with the
\* repository, in the store's order, those of the criteria's types if it
\* names any.
Passes(st, criteria, a) ==
  /\ a.repo_id = repo_id
  /\ a.unit_id \in DOMAIN st
  /\ criteria.filtered => a.unit_type_id \in criteria.type_ids

RECURSIVE FetchFrom(_, _, _)
FetchFrom(as, st, criteria) ==
  IF as = <<>> THEN <<>>
  ELSE LET a == Head(as)
           rest == FetchFrom(Tail(as), st, criteria)
       IN IF Passes(st, criteria, a)
          THEN <<[unit_type_id |-> a.unit_type_id, unit_id |-> a.unit_id,
                  metadata |-> st[a.unit_id].fields]>> \o rest
          ELSE rest

get_units_across_types(criteria) == FetchFrom(assoc, store, criteria)

Criterias ==
  {[filtered |-> FALSE, type_ids |-> {}]}
    \cup {[filtered |-> TRUE, type_ids |-> {ty}] : ty \in TypeIds}

\* to_plugin_unit(unit, type_def): the transfer object of a stored unit; the
\* type definition tells the unit_key fields from the metadata.
to_plugin_unit(unit, type_def) ==
  [type_id |-> unit.unit_type_id,
   unit_key |-> [f \in type_def.unit_key |-> unit.metadata[f]],
   metadata |-> [f \in (DOMAIN unit.metadata) \ type_def.unit_key |-> unit.metadata[f]],
   id |-> unit.unit_id]

\* ------------------------------------------------------------ conduit calls
\* The association save_unit asks for.
AssociationOf_WrongOwner(unit) ==
  [repo_id |-> repo_id, unit_type_id |-> unit.type_id, unit_id |-> unit.id,
   owner_type |-> OWNER_TYPE_IMPORTER, owner_id |-> unit.type_id]
AssociationOf(unit) ==
  [repo_id |-> repo_id, unit_type_id |-> unit.type_id, unit_id |-> unit.id,
   owner_type |-> OWNER_TYPE_IMPORTER, owner_id |-> importer_id]

\* The reference link_unit asks for, from one unit to another.
LinkRec_Reversed(from_unit, to_unit) ==
  [from_type |-> to_unit.type_id, from_id |-> to_unit.id,
   to_type |-> from_unit.type_id, to_id |-> from_unit.id]
LinkRec(from_unit, to_unit) ==
  [from_type |-> from_unit.type_id, from_id |-> from_unit.id,
   to_type |-> to_unit.type_id, to_id |-> to_unit.id]

EmptySnap == [store |-> <<>>, assoc |-> <<>>, links |-> EmptyBag, added |-> 0, updated |-> 0]

Snapshot ==
  [store |-> store, assoc |-> assoc, links |-> links,
   added |-> added_count, updated |-> updated_count]

NoDefs == [d \in {} |-> type_definition(d)]

NoFrame ==
  [op |-> "none", slot |-> 0, to_slot |-> 0, bidirectional |-> FALSE,
   pulp_unit |-> [arch |-> ""], tmp |-> 0, present |-> FALSE, pre |-> EmptySnap,
   units |-> <<>>, pending |-> <<>>, type_defs |-> NoDefs, all_units |-> <<>>,
   lookups |-> <<>>]

NewFrame(op, slot, to_slot, bidirectional, payload, present) ==
  [NoFrame EXCEPT !.op = op, !.slot = slot, !.to_slot = to_slot,
                  !.bidirectional = bidirectional, !.pulp_unit = payload,
                  !.present = present, !.pre = Snapshot]

InFlight(slot) ==
  \E t \in Threads : pc[t] # "idle" /\ (frame[t].slot = slot \/ frame[t].to_slot = slot)

IdOf(slot) == IF slot \in AllSlots THEN punits[slot].id ELSE None

\* The record of a call that ended at `step`, returning (NoRaise) or raising.
\* Only the latest record keeps the snapshot taken when its call began.
Last(h) == h[Len(h)]
Done(t, fr, step, exc) ==
  [op |-> fr.op, slot |-> fr.slot, to_slot |-> fr.to_slot,
   bidirectional |-> fr.bidirectional, step |-> step, raised |-> exc,
   id |-> IdOf(fr.slot), to_id |-> IdOf(fr.to_slot), present |-> fr.present,
   d_added |-> added_count - fr.pre.added,
   d_updated |-> updated_count - fr.pre.updated,
   pre |-> fr.pre,
   fetched |-> fr.units, result |-> fr.all_units, lookups |-> fr.lookups]

Record(h, entry) ==
  IF h = <<>> THEN <<entry>> ELSE <<[Last(h) EXCEPT !.pre = EmptySnap], entry>>

\* A call begins, within the budget of the run.
Enter(within) == within /\ ncalls' = ncalls + 1 /\ UNCHANGED <<nlinks, nqueries>>
EnterLink(within) == within /\ nlinks' = nlinks + 1 /\ UNCHANGED <<ncalls, nqueries>>
EnterQuery(within) == within /\ nqueries' = nqueries + 1 /\ UNCHANGED <<ncalls, nlinks>>

Tally(op, exc) ==
  /\ nreturned' = IF op = "save_unit" /\ exc = NoRaise THEN nreturned + 1 ELSE nreturned
  /\ nraised' = IF op = "save_unit" /\ exc # NoRaise THEN nraised + 1 ELSE nraised

\* The call of thread t ends: returns (exc = NoRaise) or raises exc.
Finish(t, step, exc) ==
  /\ hist' = Record(hist, Done(t, frame[t], step, exc))
  /\ pc' = [pc EXCEPT ![t] = "idle"]
  /\ frame' = [frame EXCEPT ![t] = NoFrame]
  /\ Tally(frame[t].op, exc)
  /\ UNCHANGED <<ncalls, nlinks, nqueries>>

Init ==
  /\ store = <<>>
  /\ assoc = <<>>
  /\ links = EmptyBag
  /\ added_count = 0
  /\ updated_count = 0
  /\ punits = [s \in AllSlots |-> NoUnit]
  /\ pc = [t \in Threads |-> "idle"]
  /\ frame = [t \in Threads |-> NoFrame]
  /\ hist = <<>>
  /\ ncalls = 0
  /\ nlinks = 0
  /\ nqueries = 0
  /\ nreturned = 0
  /\ nraised = 0
  /\ AuthQuiet /\ WorkersQuiet

\* ---------------------------------------------------------------- init_unit
\* init_unit: resolves the storage path (when a relative path is given) and
\* returns a Unit; nothing is saved.
init_unit_AlwaysPath(slot, type_id, unit_key, metadata, relative_path) ==
  /\ punits[slot] = NoUnit
  /\ LET path == request_content_unit_file_path(type_id, relative_path)
     IN punits' = [punits EXCEPT ![slot] = Unit(type_id, unit_key, metadata, path)]
  /\ UNCHANGED <<store, assoc, links, added_count, updated_count, pc, frame,
                 hist, ncalls, nlinks, nqueries, nreturned, nraised>>
  /\ UNCHANGED <<auth_vars, worker_vars>>

init_unit(slot, type_id, unit_key, metadata, relative_path) ==
  /\ punits[slot] = NoUnit
  /\ LET path == IF relative_path # NoPath
                 THEN request_content_unit_file_path(type_id, relative_path)
                 ELSE NoPath
     IN punits' = [punits EXCEPT ![slot] = Unit(type_id, unit_key, metadata, path)]
  /\ UNCHANGED <<store, assoc, links, added_count, updated_count, pc, frame,
                 hist, ncalls, nlinks, nqueries, nreturned, nraised>>
  /\ UNCHANGED <<auth_vars, worker_vars>>

\* request_content_unit_file_path raises: the plugin gets no Unit.
init_unit_fail(t, slot, within) ==
  /\ pc[t] = "idle"
  /\ Enter(within)
  /\ ArgPath(slot) # NoPath
  /\ hist' = Record(hist, Done(t, NewFrame("init_unit", 0, 0, FALSE, [arch |-> ""], FALSE),
                               "path", ImporterConduitException(StoreFailure)))
  /\ UNCHANGED <<store, assoc, links, added_count, updated_count, punits, pc, frame,
                 nreturned, nraised>>
  /\ UNCHANGED <<auth_vars, worker_vars>>

\* ---------------------------------------------------------------- save_unit
KeyPresent(slot) ==
  MatchingIds(store, punits[slot].type_id, punits[slot].unit_key) # {}

\* get_content_unit_by_keys_dict finds the unit: unit.id = existing_unit['_id'].
save_lookup_found(t, slot, within) ==
  /\ pc[t] = "idle"
  /\ Enter(within)
  /\ punits[slot] # NoUnit
  /\ KeyPresent(slot)
  /\ punits' = [punits EXCEPT ![slot].id =
                  FirstMatch(store, punits[slot].type_id, punits[slot].unit_key)]
  /\ frame' = [frame EXCEPT ![t] =
                 NewFrame("save_unit", slot, 0, FALSE, SavePayload(punits[slot]), TRUE)]
  /\ pc' = [pc EXCEPT ![t] = "s_update"]
  /\ UNCHANGED <<store, assoc, links, added_count, updated_count, hist, nreturned, nraised>>
  /\ UNCHANGED <<auth_vars, worker_vars>>

\* get_content_unit_by_keys_dict raises MissingResource: caught, the add path.
save_lookup_missing_SkipAdd(t, slot, within) ==
  /\ pc[t] = "idle"
  /\ Enter(within)
  /\ punits[slot] # NoUnit
  /\ ~KeyPresent(slot)
  /\ frame' = [frame EXCEPT ![t] =
                 NewFrame("save_unit", slot, 0, FALSE, SavePayload(punits[slot]), FALSE)]
  /\ pc' = [pc EXCEPT ![t] = "s_assoc"]
  /\ UNCHANGED <<store, assoc, links, added_count, updated_count, punits, hist, nreturned, nraised>>
  /\ UNCHANGED <<auth_vars, worker_vars>>

save_lookup_missing(t, slot, within) ==
  /\ pc[t] = "idle"
  /\ Enter(within)
  /\ punits[slot] # NoUnit
  /\ ~KeyPresent(slot)
  /\ frame' = [frame EXCEPT ![t] =
                 NewFrame("save_unit", slot, 0, FALSE, SavePayload(punits[slot]), FALSE)]
  /\ pc' = [pc EXCEPT ![t] = "s_add"]
  /\ UNCHANGED <<store, assoc, links, added_count, updated_count, punits, hist, nreturned, nraised>>
  /\ UNCHANGED <<auth_vars, worker_vars>>

\* get_content_unit_by_keys_dict raises something else.
save_lookup_fail(t, slot, within) ==
  /\ pc[t] = "idle"
  /\ Enter(within)
  /\ punits[slot] # NoUnit
  /\ hist' = Record(hist, Done(t, NewFrame("save_unit", slot, 0, FALSE,
                                          SavePayload(punits[slot]), KeyPresent(slot)),
                               "lookup", ImporterConduitException(StoreFailure)))
  /\ UNCHANGED <<store, assoc, links, added_count, updated_count, punits, pc, frame, nreturned>>
  /\ nraised' = nraised + 1
  /\ UNCHANGED <<auth_vars, worker_vars>>

save_update(t) ==
  /\ pc[t] = "s_update"
  /\ LET u == punits[frame[t].slot]
     IN store' = update_content_unit(store, u.type_id, u.id, frame[t].pulp_unit)
  /\ pc' = [pc EXCEPT ![t] = "s_uinc_r"]
  /\ UNCHANGED <<assoc, links, added_count, updated_count, punits, frame, hist, ncalls, nlinks, nqueries, nreturned, nraised>>
  /\ UNCHANGED <<auth_vars, worker_vars>>

save_update_fail(t) ==
  /\ pc[t] = "s_update"
  /\ Finish(t, "update", ImporterConduitException(StoreFailure))
  /\ UNCHANGED <<store, assoc, links, added_count, updated_count, punits>>
  /\ UNCHANGED <<auth_vars, worker_vars>>

\* self._updated_count += 1: the attribute is loaded, then stored.
save_updated_load(t) ==
  /\ pc[t] = "s_uinc_r"
  /\ frame' = [frame EXCEPT ![t].tmp = updated_count]
  /\ pc' = [pc EXCEPT ![t] = "s_uinc_w"]
  /\ UNCHANGED <<store, assoc, links, added_count, updated_count, punits, hist, ncalls, nlinks, nqueries, nreturned, nraised>>
  /\ UNCHANGED <<auth_vars, worker_vars>>

save_updated_store_Added(t) ==
  /\ pc[t] = "s_uinc_w"
  /\ added_count' = added_count + 1
  /\ pc' = [pc EXCEPT ![t] = "s_assoc"]
  /\ UNCHANGED <<store, assoc, links, updated_count, punits, frame, hist, ncalls, nlinks, nqueries, nreturned, nraised>>
  /\ UNCHANGED <<auth_vars, worker_vars>>

save_updated_store(t) ==
  /\ pc[t] = "s_uinc_w"
  /\ updated_count' = frame[t].tmp + 1
  /\ pc' = [pc EXCEPT ![t] = "s_assoc"]
  /\ UNCHANGED <<store, assoc, links, added_count, punits, frame, hist, ncalls, nlinks, nqueries, nreturned, nraised>>
  /\ UNCHANGED <<auth_vars, worker_vars>>

\* unit.id = add_content_unit(unit.type_id, None, pulp_unit)
save_add(t) ==
  /\ pc[t] = "s_add"
  /\ LET u == punits[frame[t].slot]
     IN /\ store' = add_content_unit(store, u.type_id, frame[t].pulp_unit)
        /\ punits' = [punits EXCEPT ![frame[t].slot].id = Len(store) + 1]
  /\ pc' = [pc EXCEPT ![t] = "s_ainc_r"]
  /\ UNCHANGED <<assoc, links, added_count, updated_count, frame, hist, ncalls, nlinks, nqueries, nreturned, nraised>>
  /\ UNCHANGED <<auth_vars, worker_vars>>

save_add_fail_IdSet(t) ==
  /\ pc[t] = "s_add"
  /\ punits' = [punits EXCEPT ![frame[t].slot].id = Len(store) + 1]
  /\ hist' = Record(hist, [Done(t, frame[t], "add", ImporterConduitException(StoreFailure))
                             EXCEPT !.id = Len(store) + 1])
  /\ pc' = [pc EXCEPT ![t] = "idle"]
  /\ frame' = [frame EXCEPT ![t] = NoFrame]
  /\ Tally(frame[t].op, ImporterConduitException(StoreFailure))
  /\ UNCHANGED <<ncalls, nlinks, nqueries>>
  /\ UNCHANGED <<store, assoc, links, added_count, updated_count>>
  /\ UNCHANGED <<auth_vars, worker_vars>>

save_add_fail(t) ==
  /\ pc[t] = "s_add"
  /\ Finish(t, "add", ImporterConduitException(StoreFailure))
  /\ UNCHANGED <<store, assoc, links, added_count, updated_count, punits>>
  /\ UNCHANGED <<auth_vars, worker_vars>>

\* self._added_count += 1
save_added_load(t) ==
  /\ pc[t] = "s_ainc_r"
  /\ frame' = [frame EXCEPT ![t].tmp = added_count]
  /\ pc' = [pc EXCEPT ![t] = "s_ainc_w"]
  /\ UNCHANGED <<store, assoc, links, added_count, updated_count, punits, hist, ncalls, nlinks, nqueries, nreturned, nraised>>
  /\ UNCHANGED <<auth_vars, worker_vars>>

save_added_store(t) ==
  /\ pc[t] = "s_ainc_w"
  /\ added_count' = frame[t].tmp + 1
  /\ pc' = [pc EXCEPT ![t] = "s_assoc"]
  /\ UNCHANGED <<store, assoc, links, updated_count, punits, frame, hist, ncalls, nlinks, nqueries, nreturned, nraised>>
  /\ UNCHANGED <<auth_vars, worker_vars>>

\* associate_unit_by_id(...); return unit
save_associate(t) ==
  /\ pc[t] = "s_assoc"
  /\ assoc' = associate_unit_by_id(assoc, AssociationOf(punits[frame[t].slot]))
  /\ UNCHANGED <<store, links, added_count, updated_count, punits>>
  /\ Finish(t, "return", NoRaise)
  /\ UNCHANGED <<auth_vars, worker_vars>>

save_associate_fail(t) ==
  /\ pc[t] = "s_assoc"
  /\ Finish(t, "associate", ImporterConduitException(StoreFailure))
  /\ UNCHANGED <<store, assoc, links, added_count, updated_count, punits>>
  /\ UNCHANGED <<auth_vars, worker_vars>>

\* ---------------------------------------------------------------- link_unit
\* The first link_referenced_content_units call, from from_unit to to_unit.
link_first(t, from, to, bidirectional, within) ==
  /\ pc[t] = "idle"
  /\ EnterLink(within)
  /\ punits[from] # NoUnit /\ punits[to] # NoUnit
  /\ links' = link_referenced_content_units(links, LinkRec(punits[from], punits[to]))
  /\ LET fr == NewFrame("link_unit", from, to, bidirectional, [arch |-> ""], FALSE)
     IN IF bidirectional
        THEN /\ frame' = [frame EXCEPT ![t] = fr]
             /\ pc' = [pc EXCEPT ![t] = "l_second"]
             /\ UNCHANGED hist
        ELSE /\ hist' = Record(hist, Done(t, fr, "return", NoRaise))
             /\ UNCHANGED <<pc, frame>>
  /\ UNCHANGED <<store, assoc, added_count, updated_count, punits, nreturned, nraised>>
  /\ UNCHANGED <<auth_vars, worker_vars>>

link_first_fail(t, from, to, bidirectional, within) ==
  /\ pc[t] = "idle"
  /\ EnterLink(within)
  /\ punits[from] # NoUnit /\ punits[to] # NoUnit
  /\ hist' = Record(hist, Done(t, NewFrame("link_unit", from, to, bidirectional,
                                          [arch |-> ""], FALSE),
                               "link1", ImporterConduitException(StoreFailure)))
  /\ UNCHANGED <<store, assoc, links, added_count, updated_count, punits, pc, frame,
                 nreturned, nraised>>
  /\ UNCHANGED <<auth_vars, worker_vars>>

\* if bidirectional: the reference back, from to_unit to from_unit.
link_second(t) ==
  /\ pc[t] = "l_second"
  /\ links' = link_referenced_content_units(
                links, LinkRec(punits[frame[t].to_slot], punits[frame[t].slot]))
  /\ UNCHANGED <<store, assoc, added_count, updated_count, punits>>
  /\ Finish(t, "return", NoRaise)
  /\ UNCHANGED <<auth_vars, worker_vars>>

link_second_fail_Rollback(t) ==
  /\ pc[t] = "l_second"
  /\ links' = frame[t].pre.links
  /\ Finish(t, "link2", ImporterConduitException(StoreFailure))
  /\ UNCHANGED <<store, assoc, added_count, updated_count, punits>>
  /\ UNCHANGED <<auth_vars, worker_vars>>

link_second_fail(t) ==
  /\ pc[t] = "l_second"
  /\ Finish(t, "link2", ImporterConduitException(StoreFailure))
  /\ UNCHANGED <<store, assoc, links, added_count, updated_count, punits>>
  /\ UNCHANGED <<auth_vars, worker_vars>>

\* ---------------------------------------------------------------- get_units
RECURSIVE SetToSeq(_)
SetToSeq(S) ==
  IF S = {} THEN <<>>
  ELSE LET x == CHOOSE y \in S : TRUE IN <<x>> \o SetToSeq(S \ {x})

\* unique_type_defs = set([u['unit_type_id'] for u in units]), as iterated.
unique_type_defs_PerUnit(units) == [i \in DOMAIN units |-> units[i].unit_type_id]
unique_type_defs(units) == SetToSeq({units[i].unit_type_id : i \in DOMAIN units})

\* units = get_units_across_types(...); unique_type_defs = set(...)
get_fetch(t, criteria, within) ==
  /\ pc[t] = "idle"
  /\ EnterQuery(within)
  /\ LET units == get_units_across_types(criteria)
     IN frame' = [frame EXCEPT ![t] =
                    [NoFrame EXCEPT !.op = "get_units", !.pre = Snapshot,
                                    !.units = units,
                                    !.pending = unique_type_defs(units)]]
  /\ pc' = [pc EXCEPT ![t] = "g_defs"]
  /\ UNCHANGED <<store, assoc, links, added_count, updated_count, punits, hist,
                 nreturned, nraised>>
  /\ UNCHANGED <<auth_vars, worker_vars>>

get_fetch_fail(t, criteria, within) ==
  /\ pc[t] = "idle"
  /\ EnterQuery(within)
  /\ hist' = Record(hist, Done(t, [NoFrame EXCEPT !.op = "get_units", !.pre = Snapshot],
                               "fetch", ImporterConduitException(StoreFailure)))
  /\ UNCHANGED <<store, assoc, links, added_count, updated_count, punits, pc, frame,
                 nreturned, nraised>>
  /\ UNCHANGED <<auth_vars, worker_vars>>

\* for def_id in unique_type_defs: type_defs[def_id] = type_definition(def_id)
get_type_def(t) ==
  /\ pc[t] = "g_defs"
  /\ frame[t].pending # <<>>
  /\ LET def_id == Head(frame[t].pending)
     IN frame' = [frame EXCEPT
                    ![t].type_defs = DictUpdate(@, [d \in {def_id} |-> type_definition(d)]),
                    ![t].lookups = Append(@, def_id),
                    ![t].pending = Tail(@)]
  /\ UNCHANGED <<store, assoc, links, added_count, updated_count, punits, pc, hist,
                 ncalls, nlinks, nqueries, nreturned, nraised>>
  /\ UNCHANGED <<auth_vars, worker_vars>>

get_type_def_fail(t) ==
  /\ pc[t] = "g_defs"
  /\ frame[t].pending # <<>>
  /\ Finish(t, "type_definition", ImporterConduitException(UnknownType))
  /\ UNCHANGED <<store, assoc, links, added_count, updated_count, punits>>
  /\ UNCHANGED <<auth_vars, worker_vars>>

\* for unit in units: all_units.append(to_plugin_unit(unit, type_defs[type_id]))
get_convert_Lookup(t) ==
  /\ pc[t] \in {"g_defs", "g_convert"}
  /\ frame[t].pending = <<>>
  /\ Len(frame[t].all_units) < Len(frame[t].units)
  /\ LET unit == frame[t].units[Len(frame[t].all_units) + 1]
         type_id == unit.unit_type_id
     IN frame' = [frame EXCEPT
                    ![t].lookups = Append(@, type_id),
                    ![t].all_units = Append(@, to_plugin_unit(unit, type_definition(type_id)))]
  /\ pc' = [pc EXCEPT ![t] = "g_convert"]
  /\ UNCHANGED <<store, assoc, links, added_count, updated_count, punits, hist,
                 ncalls, nlinks, nqueries, nreturned, nraised>>
  /\ UNCHANGED <<auth_vars, worker_vars>>

get_convert_LastDef(t) ==
  /\ pc[t] \in {"g_defs", "g_convert"}
  /\ frame[t].pending = <<>>
  /\ Len(frame[t].all_units) < Len(frame[t].units)
  /\ LET unit == frame[t].units[Len(frame[t].all_units) + 1]
         def_id == frame[t].lookups[Len(frame[t].lookups)]
     IN frame' = [frame EXCEPT ![t].all_units =
                    Append(@, to_plugin_unit(unit, frame[t].type_defs[def_id]))]
  /\ pc' = [pc EXCEPT ![t] = "g_convert"]
  /\ UNCHANGED <<store, assoc, links, added_count, updated_count, punits, hist,
                 ncalls, nlinks, nqueries, nreturned, nraised>>
  /\ UNCHANGED <<auth_vars, worker_vars>>

get_convert(t) ==
  /\ pc[t] \in {"g_defs", "g_convert"}
  /\ frame[t].pending = <<>>
  /\ Len(frame[t].all_units) < Len(frame[t].units)
  /\ LET unit == frame[t].units[Len(frame[t].all_units) + 1]
         type_id == unit.unit_type_id
     IN /\ type_id \in DOMAIN frame[t].type_defs
        /\ frame' = [frame EXCEPT ![t].all_units =
                       Append(@, to_plugin_unit(unit, frame[t].type_defs[type_id]))]
  /\ pc' = [pc EXCEPT ![t] = "g_convert"]
  /\ UNCHANGED <<store, assoc, links, added_count, updated_count, punits, hist,
                 ncalls, nlinks, nqueries, nreturned, nraised>>
  /\ UNCHANGED <<auth_vars, worker_vars>>

\* return all_units
get_return(t) ==
  /\ pc[t] \in {"g_defs", "g_convert"}
  /\ frame[t].pending = <<>>
  /\ Len(frame[t].all_units) = Len(frame[t].units)
  /\ Finish(t, "return", NoRaise)
  /\ UNCHANGED <<store, assoc, links, added_count, updated_count, punits>>
  /\ UNCHANGED <<auth_vars, worker_vars>>

\* ----------------------------------------------------------- specifications
PluginInit(S) ==
  \E slot \in S :
    init_unit(slot, ArgType(slot), ArgKey(slot), ArgMetadata(slot), ArgPath(slot))

\* Several plugin threads saving units through one conduit.
Next ==
  \/ PluginInit(Slots)
  \/ \E t \in Threads, slot \in Slots : init_unit_fail(t, slot, ncalls < MaxCalls)
  \/ \E t \in Threads, slot \in Slots : save_lookup_found(t, slot, ncalls < MaxCalls)
  \/ \E t \in Threads, slot \in Slots : save_lookup_missing(t, slot, ncalls < MaxCalls)
  \/ \E t \in Threads, slot \in Slots : save_lookup_fail(t, slot, ncalls < MaxCalls)
  \/ \E t \in Threads : save_update(t)
  \/ \E t \in Threads : save_update_fail(t)
  \/ \E t \in Threads : save_updated_load(t)
  \/ \E t \in Threads : save_updated_store(t)
  \/ \E t \in Threads : save_add(t)
  \/ \E t \in Threads : save_add_fail(t)
  \/ \E t \in Threads : save_added_load(t)
  \/ \E t \in Threads : save_added_store(t)
  \/ \E t \in Threads : save_associate(t)
  \/ \E t \in Threads : save_associate_fail(t)

Spec == Init /\ [][Next]_vars

\* A single-threaded plugin initializing and saving units.
NextSeq ==
  \/ PluginInit(SlotsSeq)
  \/ \E slot \in SlotsSeq : init_unit_fail(1, slot, ncalls < MaxCallsSeq)
  \/ \E slot \in SlotsSeq : save_lookup_found(1, slot, ncalls < MaxCallsSeq)
  \/ \E slot \in SlotsSeq : save_lookup_missing(1, slot, ncalls < MaxCallsSeq)
  \/ \E slot \in SlotsSeq : save_lookup_fail(1, slot, ncalls < MaxCallsSeq)
  \/ save_update(1) \/ save_update_fail(1)
  \/ save_updated_load(1) \/ save_updated_store(1)
  \/ save_add(1) \/ save_add_fail(1)
  \/ save_added_load(1) \/ save_added_store(1)
  \/ save_associate(1) \/ save_associate_fail(1)

SpecSeq == Init /\ [][NextSeq]_vars

\* The state a single-threaded plugin has reached once it has initialized the
\* units 1..k and saved those in S, in that order, every call having returned.
RECURSIVE AfterSaves(_, _)
AfterSaves(k, S) ==
  IF k = 0
  THEN [store |-> <<>>, assoc |-> <<>>, added |-> 0, updated |-> 0,
        punits |-> [s \in AllSlots |-> NoUnit]]
  ELSE LET p == AfterSaves(k - 1, S)
           u == Unit(ArgType(k), ArgKey(k), ArgMetadata(k),
                     IF ArgPath(k) # NoPath
                     THEN request_content_unit_file_path(ArgType(k), ArgPath(k))
                     ELSE NoPath)
           found == MatchingIds(p.store, u.type_id, u.unit_key) # {}
           id == IF found THEN FirstMatch(p.store, u.type_id, u.unit_key)
                 ELSE Len(p.store) + 1
           saved == [u EXCEPT !.id = id]
       IN IF k \notin S
          THEN [p EXCEPT !.punits[k] = u]
          ELSE [store |-> IF found
                          THEN update_content_unit(p.store, u.type_id, id, SavePayload(u))
                          ELSE add_content_unit(p.store, u.type_id, SavePayload(u)),
                assoc |-> associate_unit_by_id(p.assoc, AssociationOf(saved)),
                added |-> IF found THEN p.added ELSE p.added + 1,
                updated |-> IF found THEN p.updated + 1 ELSE p.updated,
                punits |-> [p.punits EXCEPT ![k] = saved]]

InitSaved(n) ==
  \E S \in SUBSET (1..n) :
    LET a == AfterSaves(n, S)
    IN /\ store = a.store
       /\ assoc = a.assoc
       /\ added_count = a.added
       /\ updated_count = a.updated
       /\ punits = a.punits
       /\ nreturned = Cardinality(S)
  /\ links = EmptyBag
  /\ pc = [t \in Threads |-> "idle"]
  /\ frame = [t \in Threads |-> NoFrame]
  /\ hist = <<>>
  /\ ncalls = 0
  /\ nlinks = 0
  /\ nqueries = 0
  /\ nraised = 0
  /\ AuthQuiet /\ WorkersQuiet

\* A single-threaded plugin linking pairs of the units it holds.
NextLink ==
  \/ \E from \in SlotsSeq : \E to \in SlotsSeq \ {from}, b \in BOOLEAN :
       link_first(1, from, to, b, nlinks < MaxLinkCalls)
  \/ \E from \in SlotsSeq : \E to \in SlotsSeq \ {from}, b \in BOOLEAN :
       link_first_fail(1, from, to, b, nlinks < MaxLinkCalls)
  \/ link_second(1) \/ link_second_fail(1)

InitLink == InitSaved(MaxUnitsSeq)

SpecLink == InitLink /\ [][NextLink]_vars

\* A single-threaded plugin querying the units of the repository.
InitQuery == InitSaved(MaxUnitsQuery)

NextQuery ==
  \/ \E c \in Criterias : get_fetch(1, c, nqueries < MaxQueries)
  \/ \E c \in Criterias : get_fetch_fail(1, c, nqueries < MaxQueries)
  \/ get_type_def(1) \/ get_type_def_fail(1)
  \/ get_convert(1) \/ get_return(1)

SpecQuery == InitQuery /\ [][NextQuery]_vars

\* A single-threaded plugin using every operation of the conduit.
Begun == ncalls + nlinks + nqueries

NextFacade ==
  \/ \E slot \in SlotsFacade : init_unit_fail(1, slot, Begun < MaxCallsFacade)
  \/ \E slot \in SlotsFacade : save_lookup_found(1, slot, Begun < MaxCallsFacade)
  \/ \E slot \in SlotsFacade : save_lookup_missing(1, slot, Begun < MaxCallsFacade)
  \/ \E slot \in SlotsFacade : save_lookup_fail(1, slot, Begun < MaxCallsFacade)
  \/ save_update(1) \/ save_update_fail(1)
  \/ save_updated_load(1) \/ save_updated_store(1)
  \/ save_add(1) \/ save_add_fail(1)
  \/ save_added_load(1) \/ save_added_store(1)
  \/ save_associate(1) \/ save_associate_fail(1)
  \/ \E from \in SlotsFacade : \E to \in SlotsFacade \ {from}, b \in BOOLEAN :
       link_first(1, from, to, b, Begun < MaxCallsFacade)
  \/ \E from \in SlotsFacade : \E to \in SlotsFacade \ {from}, b \in BOOLEAN :
       link_first_fail(1, from, to, b, Begun < MaxCallsFacade)
  \/ link_second(1) \/ link_second_fail(1)
  \/ \E c \in Criterias : get_fetch(1, c, Begun < MaxCallsFacade)
  \/ \E c \in Criterias : get_fetch_fail(1, c, Begun < MaxCallsFacade)
  \/ get_type_def(1) \/ get_type_def_fail(1)
  \/ get_convert(1) \/ get_return(1)

InitFacade == InitSaved(MaxUnitsFacade)

SpecFacade == InitFacade /\ [][NextFacade]_vars

\* The conduit before any call.
ConduitQuiet ==
  /\ store = <<>>
  /\ assoc = <<>>
  /\ links = EmptyBag
  /\ added_count = 0
  /\ updated_count = 0
  /\ punits = [s \in AllSlots |-> NoUnit]
  /\ pc = [t \in Threads |-> "idle"]
  /\ frame = [t \in Threads |-> NoFrame]
  /\ hist = <<>>
  /\ ncalls = 0
  /\ nlinks = 0
  /\ nqueries = 0
  /\ nreturned = 0
  /\ nraised = 0

\* The front-end deciding on requests.
NextAuth ==
  \/ \E environ \in Environs : allow_access_disabled(environ)
  \/ \E environ \in Environs : allow_access_enabled(environ)
  \/ authenticator_allows
  \/ authenticator_denies
  \/ allow_access_return

InitFrontEnd == ConduitQuiet /\ WorkersQuiet /\ InitAuth

SpecAuth == InitFrontEnd /\ [][NextAuth]_vars

\* The lifecycle tool run with 'start' or 'stop', one run after another.
NextWorkers ==
  \/ \E output \in {NoOutput} \cup (0..MaxWorkers), cpu_count \in 1..MaxWorkers :
       start_begin(output, cpu_count)
  \/ start_write
  \/ start_keep
  \/ start_systemctl
  \/ \E rc \in ReturnCodes : start_systemctl_fail(rc)
  \/ start_return
  \/ \E found \in Orders(Existing(unit_files)) : stop_begin(found)
  \/ stop_popen
  \/ \E rc \in ReturnCodes : stop_communicate(rc)
  \/ stop_exit

InitTool == ConduitQuiet /\ AuthQuiet /\ InitWorkers

SpecWorkers == InitTool /\ [][NextWorkers]_vars

\* ------------------------------------------------------------------ claims
KeyFields(type_id) == type_definition(type_id).unit_key

SameKey(r1, r2) ==
  /\ r1.type_id = r2.type_id
  /\ \A f \in KeyFields(r1.type_id) : r1.fields[f] = r2.fields[f]

Returned(h, op) == h.op = op /\ h.raised = NoRaise
Raised(h, op) == h.op = op /\ h.raised # NoRaise
SameIdentity(s1, s2) == ArgType(s1) = ArgType(s2) /\ ArgKey(s1) = ArgKey(s2)
AllIdle == \A t \in Threads : pc[t] = "idle"
Ended(op) == AllIdle /\ hist # <<>> /\ Last(hist).op = op

\* C1: in every reachable state of a run with several threads, the store holds
\* at most one record per (type_id, unit_key), and the save_unit calls that
\* returned for one (type_id, unit_key) all returned the same id.
C1_KeyUniqueness ==
  /\ \A i, j \in DOMAIN store : SameKey(store[i], store[j]) => i = j
  /\ \A a, b \in DOMAIN hist :
       ( /\ Returned(hist[a], "save_unit") /\ Returned(hist[b], "save_unit")
         /\ SameIdentity(hist[a].slot, hist[b].slot) )
       => hist[a].id = hist[b].id

\* Two save_unit calls for one (type_id, unit_key) have both returned, with
\* different ids, and the store holds two records for the key.
C1_Witness ==
  /\ AllIdle /\ Len(hist) = 2
  /\ Returned(hist[1], "save_unit") /\ Returned(hist[2], "save_unit")
  /\ SameIdentity(hist[1].slot, hist[2].slot)
  /\ hist[1].id # hist[2].id
  /\ \E i, j \in DOMAIN store : i # j /\ SameKey(store[i], store[j])

\* Two save_unit calls in a row, both returned, for one (type_id, unit_key)
\* that was not in the store when the first began.
TwiceInARow ==
  /\ Len(hist) = 2
  /\ Returned(hist[1], "save_unit") /\ Returned(hist[2], "save_unit")
  /\ SameIdentity(hist[1].slot, hist[2].slot)
  /\ ~hist[1].present

\* C2: in a single-threaded run, two save_unit calls in a row for a unit whose
\* key was not in the store return the same id; the first adds 1 to
\* added_count only, the second adds 1 to updated_count only, and the store
\* holds exactly one record for the key.
C2_IdempotentSave ==
  TwiceInARow =>
    /\ hist[1].id # None /\ hist[2].id = hist[1].id
    /\ hist[1].d_added = 1 /\ hist[1].d_updated = 0
    /\ hist[2].d_added = 0 /\ hist[2].d_updated = 1
    /\ Cardinality(MatchingIds(store, ArgType(hist[2].slot), ArgKey(hist[2].slot))) = 1

\* The second call was made with another Unit object describing the same unit.
C2_Witness ==
  TwiceInARow /\ AllIdle /\ hist[1].slot # hist[2].slot /\ updated_count = 1

\* C3: in a run with several threads, once every save_unit call has returned,
\* added_count + updated_count is the number of save_unit calls.
C3_CountersExact ==
  (AllIdle /\ nraised = 0) => added_count + updated_count = nreturned

\* Two save_unit calls have returned and the counters add up to one.
C3_Witness ==
  AllIdle /\ nraised = 0 /\ nreturned = 2 /\ added_count + updated_count = 1

\* C4: a link_unit call given a unit without an id raises and leaves the link
\* records as they were.
C4_LinkPrecondition ==
  ( /\ Ended("link_unit")
    /\ (Last(hist).id = None \/ Last(hist).to_id = None) )
  => (Last(hist).raised # NoRaise /\ links = Last(hist).pre.links)

\* A link_unit call to a unit without an id has returned, and a reference to
\* the id None is recorded.
C4_Witness ==
  /\ Ended("link_unit") /\ Last(hist).raised = NoRaise
  /\ Last(hist).id # None /\ Last(hist).to_id = None
  /\ \E r \in BagToSet(links) : r.to_id = None

\* C5: a save_unit call that raises leaves the unit records, the counters and
\* the associations as they were when it was called.
C5_NoPartialFailure ==
  ( Ended("save_unit") /\ Last(hist).raised # NoRaise )
  => /\ store = Last(hist).pre.store
     /\ assoc = Last(hist).pre.assoc
     /\ added_count = Last(hist).pre.added
     /\ updated_count = Last(hist).pre.updated

\* A save_unit call raised at the association step: the unit is stored and
\* counted as added, and not associated.
C5_Witness ==
  /\ Ended("save_unit") /\ Last(hist).raised # NoRaise
  /\ Last(hist).step = "associate" /\ ~Last(hist).present
  /\ Len(store) = Len(Last(hist).pre.store) + 1
  /\ added_count = Last(hist).pre.added + 1
  /\ assoc = Last(hist).pre.assoc

\* The references A->B and B->A of a link_unit(A, B) call.
LinkAB(h) ==
  [from_type |-> ArgType(h.slot), from_id |-> h.id,
   to_type |-> ArgType(h.to_slot), to_id |-> h.to_id]
LinkBA(h) ==
  [from_type |-> ArgType(h.to_slot), from_id |-> h.to_id,
   to_type |-> ArgType(h.slot), to_id |-> h.id]

\* The latest call is a link_unit(A, B) that returned, A and B being two
\* different units that have ids.
DurableLinkReturned ==
  /\ Ended("link_unit") /\ Last(hist).raised = NoRaise
  /\ Last(hist).id # None /\ Last(hist).to_id # None
  /\ LinkAB(Last(hist)) # LinkBA(Last(hist))

\* C6: for two units A and B that have ids, a link_unit(A, B) that returned leaves
\* exactly one record A->B; with bidirectional it leaves exactly one record
\* B->A as well, without it the records B->A are those there were before the
\* call; and no link record ever exists twice.
C6_DirectedLinks ==
  /\ \A r \in BagToSet(links) : CopiesIn(r, links) = 1
  /\ DurableLinkReturned =>
       LET h == Last(hist)
       IN /\ CopiesIn(LinkAB(h), links) = 1
          /\ h.bidirectional => CopiesIn(LinkBA(h), links) = 1
          /\ ~h.bidirectional =>
               CopiesIn(LinkBA(h), links) = CopiesIn(LinkBA(h), h.pre.links)

\* The same one-directional link made twice, the reverse link never made.
C6_Witness ==
  /\ DurableLinkReturned /\ Len(hist) = 2 /\ ~Last(hist).bidirectional
  /\ Returned(hist[1], "link_unit") /\ ~hist[1].bidirectional
  /\ hist[1].slot = hist[2].slot /\ hist[1].to_slot = hist[2].to_slot
  /\ ~BagIn(LinkBA(Last(hist)), links)

\* The association record of the unit a save_unit call returned.
ExpectedAssociation(h) ==
  [repo_id |-> repo_id, unit_type_id |-> ArgType(h.slot), unit_id |-> h.id,
   owner_type |-> OWNER_TYPE_IMPORTER, owner_id |-> importer_id]

\* C7: after save_unit calls that returned, the associations hold exactly one
\* record (repo_id, type_id, unit id, importer owner type, importer_id) for
\* the saved unit, and no association record exists twice.
C7_IdempotentAssociation ==
  /\ \A i \in DOMAIN assoc : Copies(assoc, assoc[i]) = 1
  /\ \A i \in DOMAIN hist :
       Returned(hist[i], "save_unit") => Copies(assoc, ExpectedAssociation(hist[i])) = 1

\* One Unit object saved three times.
C7_Witness ==
  /\ Len(hist) = 2 /\ nreturned = 3
  /\ Returned(hist[1], "save_unit") /\ Returned(hist[2], "save_unit")
  /\ hist[1].id = hist[2].id /\ hist[1].slot = hist[2].slot
  /\ Len(assoc) = 1

FieldIs(rec, f, v) == f \in DOMAIN rec.fields /\ rec.fields[f] = v

\* After a save_unit call that returned, the stored record holds the unit_key's
\* value in every unit_key field and the metadata's value in every other
\* metadata field.
SavedAsMerged ==
  ( Ended("save_unit") /\ Last(hist).raised = NoRaise )
  => LET h == Last(hist)
         rec == store[h.id]
     IN /\ h.id \in DOMAIN store
        /\ \A f \in DOMAIN ArgKey(h.slot) : FieldIs(rec, f, ArgKey(h.slot)[f])
        /\ \A f \in (DOMAIN ArgMetadata(h.slot)) \ (DOMAIN ArgKey(h.slot)) :
             FieldIs(rec, f, ArgMetadata(h.slot)[f])

\* A step leaves every unit_key field of every stored record as it was.
KeyFieldsKept ==
  \A i \in DOMAIN store : \A f \in KeyFields(store[i].type_id) :
    f \in DOMAIN store[i].fields /\ FieldIs(store'[i], f, store[i].fields[f])

\* C8: after a save_unit call that returned, on the insert path and on the
\* update path, the stored record holds the unit_key's value in every unit_key
\* field, also where the metadata names that field, and holds the metadata's
\* value in every other metadata field; and no step changes a unit_key field
\* of a stored record.
C8_MergePrecedence == []SavedAsMerged /\ [][KeyFieldsKept]_vars

\* A unit whose metadata names the unit_key field, saved on the update path.
C8_Witness ==
  /\ Ended("save_unit") /\ Last(hist).raised = NoRaise
  /\ Last(hist).present
  /\ \E f \in DOMAIN ArgKey(Last(hist).slot) :
       /\ f \in DOMAIN ArgMetadata(Last(hist).slot)
       /\ ArgMetadata(Last(hist).slot)[f] # ArgKey(Last(hist).slot)[f]

\* What the sub-component called at a step raises when it fails.
StepCause(step) == IF step = "type_definition" THEN UnknownType ELSE StoreFailure

\* C9: whatever step fails inside get_units, init_unit, save_unit or
\* link_unit, the plugin gets an ImporterConduitException carrying the step's
\* own exception; the MissingResource of the key lookup never reaches it.
C9_UniformFailure ==
  \A i \in DOMAIN hist :
    hist[i].raised # NoRaise =>
      /\ hist[i].op \in {"get_units", "init_unit", "save_unit", "link_unit"}
      /\ hist[i].raised.kind = "ImporterConduitException"
      /\ hist[i].raised.cause = StepCause(hist[i].step)
      /\ hist[i].raised.cause # MissingResource

\* A save_unit whose key lookup found nothing went on to the add path and
\* failed there; then a bidirectional link_unit failed at its second reference.
C9_Witness ==
  /\ Len(hist) = 2
  /\ Raised(hist[1], "save_unit") /\ ~hist[1].present /\ hist[1].step = "add"
  /\ Raised(hist[2], "link_unit") /\ hist[2].step = "link2"

TypesOf(units) == {units[i].unit_type_id : i \in DOMAIN units}

\* C10: a get_units call looks up each type id of the fetched units once, all
\* of them before it converts a unit: as many lookups as distinct type ids.
C10_LookupBatching ==
  /\ \A t \in Threads :
       /\ frame[t].all_units # <<>> => frame[t].pending = <<>>
       /\ Len(frame[t].lookups) = Cardinality(TypesOf(frame[t].units))
                                    - Len(frame[t].pending)
  /\ \A i \in DOMAIN hist :
       Returned(hist[i], "get_units") =>
         /\ Len(hist[i].lookups) = Cardinality(TypesOf(hist[i].fetched))
         /\ \A ty \in TypesOf(hist[i].fetched) :
              Cardinality({k \in DOMAIN hist[i].lookups : hist[i].lookups[k] = ty}) = 1

\* Three units of two types: two lookups.
C10_Witness ==
  /\ hist # <<>> /\ Returned(Last(hist), "get_units")
  /\ Len(Last(hist).fetched) = 3 /\ Len(Last(hist).result) = 3
  /\ Len(Last(hist).lookups) = 2

CountIn(seq, x) == Cardinality({k \in DOMAIN seq : seq[k] = x})

RECURSIVE LookupsUpTo(_, _)
LookupsUpTo(f, n) == IF n = 0 THEN <<>> ELSE LookupsUpTo(f, n - 1) \o f[n].lookups

\* The type_definition lookups of the calls on record and of those in progress.
LookupsSoFar == LookupsUpTo(hist, Len(hist)) \o LookupsUpTo(frame, NumThreads)

\* C11 as stated: over the get_units calls of one conduit, the definition of
\* each type id is looked up at most once.
C11_LookupCache == \A ty \in TypeIds : CountIn(LookupsSoFar, ty) <= 1

\* C11, amended: within one get_units call the definition of each type id is
\* looked up at most once, and a call that returned looked up the definition
\* of every type among its own units, also of those an earlier call looked up.
C11_PerCallLookups ==
  /\ \A t \in Threads : \A ty \in TypeIds : CountIn(frame[t].lookups, ty) <= 1
  /\ \A i \in DOMAIN hist : \A ty \in TypeIds :
       /\ CountIn(hist[i].lookups, ty) <= 1
       /\ Returned(hist[i], "get_units") =>
            (CountIn(hist[i].lookups, ty) = 1 <=> ty \in TypesOf(hist[i].fetched))

\* Two get_units calls returned, each with a unit of one same type: the
\* second looked the type up again.
C11_Witness ==
  /\ Len(hist) = 2
  /\ Returned(hist[1], "get_units") /\ Returned(hist[2], "get_units")
  /\ \E ty \in TypeIds :
       /\ ty \in TypesOf(hist[1].fetched) /\ ty \in TypesOf(hist[2].fetched)
       /\ CountIn(hist[1].lookups, ty) = 1 /\ CountIn(hist[2].lookups, ty) = 1

\* A step in which init_unit returned the Unit object of a slot.
Initialized(slot) == punits[slot] = NoUnit /\ punits'[slot] # NoUnit

InitUnitEffect ==
  \A slot \in AllSlots :
    Initialized(slot) =>
      /\ UNCHANGED <<store, assoc, links, added_count, updated_count>>
      /\ punits'[slot].id = None
      /\ punits'[slot].type_id = ArgType(slot)
      /\ punits'[slot].unit_key = ArgKey(slot)
      /\ punits'[slot].metadata = ArgMetadata(slot)
      /\ (punits'[slot].storage_path # NoPath) <=> (ArgPath(slot) # NoPath)
      /\ ArgPath(slot) # NoPath =>
           punits'[slot].storage_path =
             request_content_unit_file_path(ArgType(slot), ArgPath(slot))

\* C12: an init_unit call leaves the stored units, the associations, the links
\* and both counters as they were; the Unit it returns has no id, and has a
\* storage path, resolved for its type, exactly when a relative path was given.
C12_InitUnitChangesNothing == [][InitUnitEffect]_vars

\* With a unit stored and counted, init_unit has returned a Unit without a
\* path, and one with a path, neither with an id.
C12_Witness ==
  /\ store # <<>> /\ added_count = 1 /\ assoc # <<>>
  /\ \E a, b \in SlotsSeq :
       /\ punits[a] # NoUnit /\ punits[a].id = None /\ punits[a].storage_path = NoPath
       /\ punits[b] # NoUnit /\ punits[b].id = None /\ punits[b].storage_path # NoPath

\* The hydration of a raw record with the definition of the record's own type.
Hydrated(unit) == to_plugin_unit(unit, type_definition(unit.unit_type_id))

\* C13: a get_units call that returned gives as many units as the store's
\* fetch gave records, the i-th being the hydration of the i-th record with
\* that record's own type definition, its id populated; while the call runs,
\* the units converted so far are those of the first records, in order.
C13_OrderAndCardinality ==
  /\ \A t \in Threads :
       /\ Len(frame[t].all_units) <= Len(frame[t].units)
       /\ \A i \in DOMAIN frame[t].all_units :
            frame[t].all_units[i] = Hydrated(frame[t].units[i])
  /\ \A k \in DOMAIN hist :
       Returned(hist[k], "get_units") =>
         /\ Len(hist[k].result) = Len(hist[k].fetched)
         /\ \A i \in DOMAIN hist[k].result :
              /\ hist[k].result[i] = Hydrated(hist[k].fetched[i])
              /\ hist[k].result[i].id = hist[k].fetched[i].unit_id
              /\ hist[k].result[i].id # None

\* Units of types rpm, srpm, rpm returned in the store's order.
C13_Witness ==
  /\ hist # <<>> /\ Returned(Last(hist), "get_units")
  /\ Len(Last(hist).result) = 3
  /\ Last(hist).result[1].type_id = "rpm" /\ Last(hist).result[1].id = 1
  /\ Last(hist).result[2].type_id = "srpm" /\ Last(hist).result[2].id = 2
  /\ Last(hist).result[3].type_id = "rpm" /\ Last(hist).result[3].id = 3

AllAllow(environ) == \A c \in Authenticators : verdict[c, environ]
AllDeny(environ) == \A c \in Authenticators : ~verdict[c, environ]

\* The authenticators called for a request: each at most once, with the
\* request's environ, and none after one that denied.
CalledInChain(a) ==
  /\ \A i, j \in DOMAIN a.calls : a.calls[i].checker = a.calls[j].checker => i = j
  /\ \A i \in DOMAIN a.calls :
       /\ a.calls[i].environ = a.environ
       /\ a.calls[i].checker \in Authenticators
       /\ i < Len(a.calls) => verdict[a.calls[i].checker, a.environ]

\* C14: with the disable flag set allow_access returns allow and calls no
\* authenticator; otherwise it returns allow exactly when every loaded
\* authenticator allows, each is called at most once with the environ, none
\* is called after the first that denies, and with all denying one is called.
C14_AuthChain ==
  /\ CalledInChain(auth)
  /\ auth_pc = "loop" => \A i \in DOMAIN auth.calls : verdict[auth.calls[i].checker, auth.environ]
  /\ auth_done.result # "none" =>
       /\ CalledInChain(auth_done)
       /\ auth_disabled => (auth_done.result = "allow" /\ auth_done.calls = <<>>)
       /\ ~auth_disabled =>
            /\ auth_done.result = "allow" <=> AllAllow(auth_done.environ)
            /\ auth_done.result = "allow" => Len(auth_done.calls) = MaxCheckers
            /\ auth_done.result = "deny" =>
                 ~verdict[auth_done.calls[Len(auth_done.calls)].checker, auth_done.environ]
            /\ AllDeny(auth_done.environ) => Len(auth_done.calls) = 1

\* A second request, denied by every authenticator: one was called. The
\* first authenticator allows the other environ.
C14_Witness ==
  /\ nrequests = 2 /\ auth_pc = "idle" /\ ~auth_disabled
  /\ auth_done.result = "deny" /\ AllDeny(auth_done.environ)
  /\ Len(auth_done.calls) = 1
  /\ \E e \in Environs : verdict[1, e]

\* The last return code of rcs that is not EX_OK; EX_OK when there is none.
RECURSIVE LastNonZero(_)
LastNonZero(rcs) ==
  IF rcs = <<>> THEN EX_OK
  ELSE IF rcs[Len(rcs)] # EX_OK THEN rcs[Len(rcs)]
  ELSE LastNonZero(SubSeq(rcs, 1, Len(rcs) - 1))

KindCount(log, kind) == Cardinality({k \in DOMAIN log : log[k].kind = kind})

\* A stop run issues its stop commands, one per unit file found, before it
\* waits on any, and waits on them in the order it issued them.
StopsThenWaits(run) ==
  /\ {run.found[k] : k \in DOMAIN run.found} = Existing(run.pre)
  /\ Len(run.found) = Cardinality(Existing(run.pre))
  /\ \A a, b \in DOMAIN run.log :
       (a < b /\ run.log[a].kind = "wait") => run.log[b].kind = "wait"
  /\ KindCount(run.log, "wait") > 0 => KindCount(run.log, "stop") = Len(run.found)
  /\ KindCount(run.log, "wait") = Len(run.rcs)
  /\ \A k \in DOMAIN run.rcs :
       run.log[KindCount(run.log, "stop") + k].worker = run.found[k]

\* C15: _stop_workers issues a stop command for every unit file found before
\* it waits on any; it waits on all of them; it ends with the return code of
\* the last stop command, in iteration order, that returned non-zero, and
\* with 0 exactly when every stop command returned 0.
C15_StopExitCode ==
  /\ mw.op = "stop" => StopsThenWaits(mw)
  /\ \A r \in DOMAIN mw_done :
       mw_done[r].op = "stop" =>
         /\ StopsThenWaits(mw_done[r])
         /\ Len(mw_done[r].rcs) = Cardinality(Existing(mw_done[r].pre))
         /\ mw_done[r].exit_code = LastNonZero(mw_done[r].rcs)
         /\ mw_done[r].exit_code = EX_OK <=>
              \A k \in DOMAIN mw_done[r].rcs : mw_done[r].rcs[k] = EX_OK

\* Two workers stopped, both stop commands failing with different codes.
C15_Witness ==
  /\ mw_done # <<>> /\ mw_pc = "idle"
  /\ LET run == mw_done[Len(mw_done)]
     IN /\ run.op = "stop" /\ Len(run.rcs) = 2
        /\ run.rcs[1] # EX_OK /\ run.rcs[2] # EX_OK /\ run.rcs[1] # run.rcs[2]
        /\ run.exit_code = run.rcs[2]

\* The call on record h is a bidirectional link_unit(A, B), A and B different
\* units, that failed at its second write.
FailedAtSecondWrite(h) ==
  /\ h.op = "link_unit" /\ h.bidirectional
  /\ h.raised # NoRaise /\ h.step = "link2"
  /\ LinkAB(h) # LinkBA(h)

\* The latest call repeated the one before it, which had failed at its second
\* write, and returned.
RetriedAfterSecondWrite ==
  /\ Len(hist) = 2 /\ AllIdle
  /\ FailedAtSecondWrite(hist[1])
  /\ Returned(hist[2], "link_unit") /\ hist[2].bidirectional
  /\ hist[2].slot = hist[1].slot /\ hist[2].to_slot = hist[1].to_slot

\* C16: a link_unit(A, B, bidirectional) that fails at its second write raises
\* and leaves the record A->B of its first write, the records B->A being those
\* there were; a later repetition of the call that returns leaves exactly one
\* record A->B and exactly one record B->A.
C16_RetryableLink ==
  /\ (Ended("link_unit") /\ FailedAtSecondWrite(Last(hist))) =>
       LET h == Last(hist)
       IN /\ h.raised.kind = "ImporterConduitException"
          /\ CopiesIn(LinkAB(h), links) = 1
          /\ CopiesIn(LinkBA(h), links) = CopiesIn(LinkBA(h), h.pre.links)
  /\ RetriedAfterSecondWrite =>
       /\ CopiesIn(LinkAB(hist[2]), links) = 1
       /\ CopiesIn(LinkBA(hist[2]), links) = 1

\* The retry returned, for two saved units not linked before the first call.
C16_Witness ==
  /\ RetriedAfterSecondWrite
  /\ hist[2].id # None /\ hist[2].to_id # None
  /\ BagCardinality(links) = 2

\* The workers a run's log has an event of the kind for, and the events of a
\* kind for one worker.
WorkersWith(log, kind) == {log[k].worker : k \in {j \in DOMAIN log : log[j].kind = kind}}
EventCount(log, kind, w) ==
  Cardinality({k \in DOMAIN log : log[k] = Event(kind, w)})

\* A start run that ended with every start command having returned 0.
Started(run) == run.op = "start" /\ run.exit_code = EX_OK

\* The run in progress is a start run that has gone through range(concurrency)
\* and is about to return; the run before it is mw_done[1].
SecondStartDone ==
  mw_pc = "unit_file" /\ mw.op = "start" /\ mw.i >= mw.concurrency

\* What a completed start run has done, for n workers.
Materialized(run) ==
  LET n == run.concurrency
  IN /\ \A w \in Workers :
          /\ w < n => run.post[w] = unit_contents(w)
          /\ w >= n => run.post[w] = run.pre[w]
          /\ EventCount(run.log, "write", w) =
               (IF w < n /\ NeedsWrite(run.pre, w) THEN 1 ELSE 0)
          /\ EventCount(run.log, "start", w) = (IF w < n THEN 1 ELSE 0)
     /\ Len(run.rcs) = n
     /\ \A a, b \in DOMAIN run.log :
          (a < b /\ run.log[a].kind = "start" /\ run.log[b].kind = "start")
            => run.log[a].worker < run.log[b].worker

\* C17: after a _start_workers run for n workers whose start commands all
\* succeeded, the unit files 0..n-1 hold the template for their index, the
\* run wrote exactly those that were absent or differed, and it started each
\* worker once, in index order; a second such run for the same n writes no
\* file, leaves the files as they were, and starts the n workers again.
C17_StartIdempotent ==
  /\ \A r \in DOMAIN mw_done : Started(mw_done[r]) => Materialized(mw_done[r])
  /\ ( /\ mw_done # <<>> /\ Started(mw_done[1]) /\ SecondStartDone
       /\ mw.concurrency = mw_done[1].concurrency )
     => /\ WorkersWith(mw.log, "write") = {}
        /\ unit_files = mw.pre
        /\ KindCount(mw.log, "start") = mw.concurrency

\* Two start runs for two workers: the first wrote both unit files, the
\* second wrote none and started both workers.
C17_Witness ==
  /\ mw_done # <<>> /\ Started(mw_done[1]) /\ SecondStartDone
  /\ mw_done[1].concurrency = 2 /\ mw.concurrency = 2
  /\ WorkersWith(mw_done[1].log, "write") = {0, 1}
  /\ WorkersWith(mw.log, "write") = {}
  /\ WorkersWith(mw.log, "start") = {0, 1}

\* The events of a start run go worker by worker in index order, a worker's
\* write before its start command.
InIndexOrder(log) ==
  \A a, b \in DOMAIN log :
    a < b =>
      /\ log[a].worker <= log[b].worker
      /\ log[a].worker = log[b].worker =>
           (log[a].kind = "write" /\ log[b].kind = "start")

\* A start run that ended at a start command that returned non-zero.
FailedStart(run) == run.op = "start" /\ run.exit_code # EX_OK

\* C18: _start_workers handles the workers in index order, writing a worker's
\* unit file, if needed, before issuing its start command; no command follows
\* one that returned non-zero: the tool exits with that return code, and for
\* every worker of greater index no unit file is written and no start command
\* is issued.
C18_StartFailsFast ==
  /\ mw.op = "start" =>
       /\ InIndexOrder(mw.log)
       /\ \A k \in DOMAIN mw.rcs : mw.rcs[k] = EX_OK
  /\ \A r \in DOMAIN mw_done :
       LET run == mw_done[r]
           i == Len(run.rcs) - 1
       IN /\ run.op = "start" => InIndexOrder(run.log)
          /\ FailedStart(run) =>
               /\ run.rcs # <<>>
               /\ run.exit_code = run.rcs[Len(run.rcs)]
               /\ \A k \in 1..(Len(run.rcs) - 1) : run.rcs[k] = EX_OK
               /\ run.log[Len(run.log)] = Event("start", i)
               /\ \A k \in DOMAIN run.log : run.log[k].worker <= i
               /\ \A w \in Workers : w > i => run.post[w] = run.pre[w]

\* Asked for two workers, the tool exited at the start command of worker 0:
\* the unit file of worker 1, absent before, was not written.
C18_Witness ==
  /\ mw_done # <<>> /\ mw_pc = "idle"
  /\ LET run == mw_done[Len(mw_done)]
     IN /\ FailedStart(run) /\ run.concurrency = 2 /\ Len(run.rcs) = 1
        /\ run.log = <<Event("write", 0), Event("start", 0)>>
        /\ run.pre[1] = Absent /\ unit_files[1] = Absent

\* The Unit object refers to a stored record of its type_id and unit_key.
Durable(unit) ==
  /\ unit.id \in DOMAIN store
  /\ store[unit.id].type_id = unit.type_id
  /\ \A f \in DOMAIN unit.unit_key : FieldIs(store[unit.id], f, unit.unit_key[f])

\* Every Unit object with an id is durable, and a save_unit call that failed
\* at the insert left its Unit object without an id.
IdImpliesDurable ==
  /\ \A slot \in AllSlots : punits[slot].id # None => Durable(punits[slot])
  /\ \A i \in DOMAIN hist :
       (Raised(hist[i], "save_unit") /\ hist[i].step = "add") => hist[i].id = None

\* The id of a Unit object changes only inside a save_unit call on it.
IdSetBySave ==
  \A slot \in AllSlots :
    punits'[slot].id # punits[slot].id =>
      \E t \in Threads : frame'[t].op = "save_unit" /\ frame'[t].slot = slot

\* C19: in a single-threaded run, a Unit object whose id is set, by the insert
\* or the update path of save_unit, also when the call then fails, refers to a
\* stored record of the same type_id and unit_key; a Unit object never saved,
\* or whose insert failed, has no id.
C19_IdImpliesDurable == []IdImpliesDurable /\ [][IdSetBySave]_vars

\* An insert failed and left no id; then the save of another Unit object
\* failed at the update, leaving the id of the record found.
C19_Witness ==
  /\ Len(hist) = 2 /\ AllIdle
  /\ Raised(hist[1], "save_unit") /\ hist[1].step = "add" /\ hist[1].id = None
  /\ Raised(hist[2], "save_unit") /\ hist[2].step = "update"
  /\ punits[hist[2].slot].id # None /\ Durable(punits[hist[2].slot])
  /\ punits[hist[1].slot].id = None

\* An association record names the conduit's repository and importer and a
\* stored unit of its type.
Attributed(st, a) ==
  /\ a.repo_id = repo_id
  /\ a.owner_type = OWNER_TYPE_IMPORTER
  /\ a.owner_id = importer_id
  /\ a.unit_id \in DOMAIN st
  /\ st[a.unit_id].type_id = a.unit_type_id

AssociationsAttributed == \A i \in DOMAIN assoc : Attributed(store, assoc[i])

\* A step keeps every association record; one it adds is added by a save_unit
\* call that is past its insert or update, for a unit stored before the step.
AssociationsOnlyAdded ==
  /\ \A i \in DOMAIN assoc : i \in DOMAIN assoc' /\ assoc'[i] = assoc[i]
  /\ \A i \in (DOMAIN assoc') \ (DOMAIN assoc) :
       /\ Attributed(store, assoc'[i])
       /\ \E t \in Threads :
            /\ pc[t] = "s_assoc" /\ pc'[t] = "idle"
            /\ assoc'[i] = AssociationOf(punits[frame[t].slot])

\* C20: every association record has the conduit's repo_id, the importer
\* owner type, the conduit's importer_id and the id of a stored record of its
\* type_id; a record is created only by a save_unit call whose insert or
\* update has succeeded, and none is ever removed.
C20_AssociationIntegrity == []AssociationsAttributed /\ [][AssociationsOnlyAdded]_vars

\* Two save_unit calls for one unit key have returned, one having inserted
\* the record and the other updated it: one record, one association to it.
C20_Witness ==
  /\ AllIdle /\ nreturned = 2
  /\ Cardinality(DOMAIN store) = 1 /\ Len(assoc) = 1
  /\ assoc[1].unit_id \in DOMAIN store
  /\ AssociationsAttributed

====
